---- MODULE Spec2Model ----
(***************************************************************************)
(* A model of the aht10-async driver (src/src/lib.rs): the AHT10 driver    *)
(* object, its three async operations new / reset / read, the command      *)
(* writer write_cmd, the bit-packed decode of the 7-byte response and the  *)
(* f32 conversions of the Humidity and Temperature value types.            *)
(*                                                                         *)
(* The transport (embedded-hal-async I2c) and the timer (DelayUs) are the  *)
(* environment: every transport call ends in success or in one of the      *)
(* errors of BusErrors, a write_read hands back any response of Responses. *)
(* Every .await of the source is a position of pc; the future of an        *)
(* operation may be dropped at any of them.                                *)
(***************************************************************************)
EXTENDS Integers, Sequences, FiniteSets, TLC

VARIABLES
    pc,      \* position of the calling task: "idle" or the .await it is suspended at
    dev,     \* TRUE when new() has returned Ok(dev): the caller holds an AHT10
    bus,     \* the history of the bus and the timer: transport calls issued, errors the
             \* transport reported, delays elapsed
    opStart, \* Len(bus) when the current (or last) operation was called
    nops,    \* operations called so far
    ret,     \* what the last operation returned
    buf,     \* read()'s local response buffer, as the last read() left it
    val,     \* a Humidity or Temperature value held by the caller
    fout     \* what the last rh() / celsius() / raw() on val returned: an f32 as a
             \* count of 2^-20, the u32 of raw() as it is

vars == <<pc, dev, bus, opStart, nops, ret, buf, val, fout>>

(***************************************************************************)
(* Bounds of the model.                                                    *)
(***************************************************************************)
\* operations (new / reset / read) called in one behaviour
MaxOps == 3

(***************************************************************************)
(* Constants of the source.                                                *)
(***************************************************************************)
I2C_ADDRESS == 56

\* enum Command, #[repr(u8)]
Calibrate == 225
GetRaw == 168
GetCT == 172
Reset == 186

\* bitflags! StatusFlags
BUSY == 128
MODE == 96
CRC == 16
CALIBRATION_ENABLE == 8
FIFO_ENABLE == 4
FIFO_FULL == 2
FIFO_EMPTY == 1

\* (1 << 20): the divisor of both conversions
TwoTo20 == 1048576

\* the delays of new() and reset(), in ms
NEW_DELAY_MS == 300
RESET_DELAY_MS == 20

\* the length of read()'s buffer, [u8; 7]
BUF_LEN == 7

(***************************************************************************)
(* Integer helpers: u8 / u32 arithmetic as the source computes it.         *)
(***************************************************************************)
RECURSIVE Pow2(_)
Pow2(n) == IF n = 0 THEN 1 ELSE 2 * Pow2(n - 1)

\* a << n on a u32 holding a byte-sized value (no bit is shifted out below 2^32)
Shl(a, n) == a * Pow2(n)

\* a >> n
Shr(a, n) == a \div Pow2(n)

RECURSIVE BitAnd(_, _)
BitAnd(a, b) ==
    IF a = 0 \/ b = 0 THEN 0
    ELSE (IF a % 2 = 1 /\ b % 2 = 1 THEN 1 ELSE 0) + 2 * BitAnd(a \div 2, b \div 2)

RECURSIVE BitOr(_, _)
BitOr(a, b) ==
    IF a = 0 THEN b
    ELSE IF b = 0 THEN a
    ELSE (IF a % 2 = 1 \/ b % 2 = 1 THEN 1 ELSE 0) + 2 * BitOr(a \div 2, b \div 2)

\* `x as u8`
AsU8(x) == x % 256

(***************************************************************************)
(* f32 arithmetic.  Every f32 the conversions compute is an integer or an  *)
(* integer divided by 2^20, so a value is held as an integer count (of 1   *)
(* or of 2^-20); rounding to the 24 significant bits of an f32 does not    *)
(* depend on the unit.                                                     *)
(***************************************************************************)
\* the significand of an f32 has 24 bits: 2^24
F32_SIG == 16777216

Abs(n) == IF n < 0 THEN 0 - n ELSE n

\* the spacing of the f32 values around magnitude m
RECURSIVE Ulp(_)
Ulp(m) == IF m < F32_SIG THEN 1 ELSE 2 * Ulp(m \div 2)

\* the f32 nearest to n, ties to even (IEEE 754 round-to-nearest-even)
RoundF32(n) ==
    LET a == Abs(n)
        u == Ulp(a)
        q == a \div u
        r == a % u
        m == IF 2 * r > u \/ (2 * r = u /\ q % 2 = 1) THEN (q + 1) * u ELSE q * u
    IN  IF n < 0 THEN 0 - m ELSE m

\* `n as f32` of a u32
U32AsF32(n) == RoundF32(n)

\* a * b of two integer-valued f32
F32Mul(a, b) == RoundF32(a * b)

\* x / ((1 << 20) as f32): a division by a power of two only lowers the exponent;
\* the quotient x / 2^20 is held as the count x of 2^-20
F32DivTwoTo20(x) == x

\* a - c of an f32 a held as a count of 2^-20 and an integer-valued f32 c
F32Sub(a, c) == RoundF32(a - c * TwoTo20)

\* struct Humidity { h: u32 }
Humidity(r) == [h |-> r]

\* struct Temperature { t: u32 }
Temperature(r) == [t |-> r]

\* raw() through a 16-bit integer: the upper bits of the count are lost
Humidity_raw_u16(self) == self.h % 65536

\* Humidity::raw
Humidity_raw(self) == self.h

\* Temperature::raw
Temperature_raw(self) == self.t

\* rh() dividing in integers before the conversion to f32
rh_truncated(self) == F32DivTwoTo20(U32AsF32(((100 * self.h) \div TwoTo20) * TwoTo20))

\* Humidity::rh, as a count of 2^-20
rh(self) == F32DivTwoTo20(F32Mul(100, U32AsF32(self.h)))

\* celsius() with the offset of 50 left out
celsius_no_offset(self) == F32DivTwoTo20(F32Mul(200, U32AsF32(self.t)))

\* Temperature::celsius, as a count of 2^-20
celsius(self) == F32Sub(F32DivTwoTo20(F32Mul(200, U32AsF32(self.t))), 50)

\* the result of a conversion
FOut(fn, x) == [fn |-> fn, q20 |-> x]

NoFOut == FOut("none", 0)

(***************************************************************************)
(* The environment: transport outcomes and sensor responses.               *)
(***************************************************************************)
\* the errors a transport call may report (I2C::Error)
BusErrors == {"Nack", "ArbitrationLoss"}

TOk == [ok |-> TRUE, err |-> "none"]
TErr(e) == [ok |-> FALSE, err |-> e]

\* Result<(), I2C::Error> of one transport call
TransportResults == {TOk} \cup {TErr(e) : e \in BusErrors}

StatusSamples == {0, 8, 136, 247, 255}
Byte1Samples == {0, 25, 255}
Byte2Samples == {1, 153}
Byte3Samples == {15, 154, 240}
Byte4Samples == {25, 128}
Byte5Samples == {2, 153}
Byte6Samples == {0, 255}

MkBuf(b0, b1, b2, b3, b4, b5, b6) ==
    [i \in 0..(BUF_LEN - 1) |->
        CASE i = 0 -> b0 [] i = 1 -> b1 [] i = 2 -> b2 [] i = 3 -> b3
          [] i = 4 -> b4 [] i = 5 -> b5 [] OTHER -> b6]

\* the 7-byte responses the sensor is let to give
Responses ==
    {MkBuf(b0, b1, b2, b3, b4, b5, b6) :
        b0 \in StatusSamples, b1 \in Byte1Samples, b2 \in Byte2Samples,
        b3 \in Byte3Samples, b4 \in Byte4Samples, b5 \in Byte5Samples,
        b6 \in Byte6Samples}

\* `&mut [0; 7]`
ZeroBuf == [i \in 0..(BUF_LEN - 1) |-> 0]

\* what a failed write_read may have left in the buffer
LeftInBuf == {ZeroBuf} \cup {MkBuf(b0, 255, 153, 154, 25, 153, 0) : b0 \in StatusSamples}

(***************************************************************************)
(* What the driver does on the bus and with the timer.                     *)
(***************************************************************************)
\* i2c.write(addr, bytes)
WriteEv(addr, bytes) ==
    [op |-> "write", addr |-> addr, bytes |-> bytes, n |-> 0, err |-> "none"]

\* i2c.write_read(addr, bytes, buf) with buf of n bytes
WriteReadEv(addr, bytes, n) ==
    [op |-> "write_read", addr |-> addr, bytes |-> bytes, n |-> n, err |-> "none"]

\* delay.delay_ms(ms) has elapsed
DelayEv(ms) == [op |-> "delay", addr |-> 0, bytes |-> <<>>, n |-> ms, err |-> "none"]

\* the transport reported error e for the call in flight
ErrorEv(e) == [op |-> "error", addr |-> 0, bytes |-> <<>>, n |-> 0, err |-> e]

\* what the end of a transport call adds to the history
Outcome(res) == IF res.ok THEN <<>> ELSE <<ErrorEv(res.err)>>

\* write_cmd sending the payload low byte first
write_cmd_little_endian(cmd, dat) ==
    WriteEv(I2C_ADDRESS, <<AsU8(cmd), AsU8(BitAnd(dat, 255)), AsU8(Shr(dat, 8))>>)

\* fn write_cmd: the write it issues
write_cmd(cmd, dat) ==
    WriteEv(I2C_ADDRESS, <<AsU8(cmd), AsU8(Shr(dat, 8)), AsU8(BitAnd(dat, 255))>>)

\* the events of the current (or last) operation
opLog == SubSeq(bus, opStart + 1, Len(bus))

(***************************************************************************)
(* Return values.                                                          *)
(***************************************************************************)
NoVal == <<>>

Ret(op, kind, err, v) == [op |-> op, kind |-> kind, err |-> err, val |-> v]

NoRet == Ret("none", "none", "none", NoVal)
Pending(op) == Ret(op, "pending", "none", NoVal)
\* the future was dropped at an .await: nothing is returned
Dropped(op) == Ret(op, "dropped", "none", NoVal)
\* Ok(dev) of new(), Ok(()) of reset()
RetOk(op) == Ret(op, "Ok", "none", NoVal)
\* Err(e) of new() and reset(): the transport's error itself
RetErr(op, e) == Ret(op, "Err", e, NoVal)

\* impl From<E> for Error<E>
From(e) == Ret("read", "BusError", e, NoVal)

\* Error::Uncalibrated()
Uncalibrated == Ret("read", "Uncalibrated", "none", NoVal)

\* Ok((Humidity { h: hum }, Temperature { t: temp }))
RetReading(hum, temp) == Ret("read", "Ok", "none", <<Humidity(hum), Temperature(temp)>>)

\* StatusFlags::contains
contains(status, flag) == BitAnd(status, flag) = flag

(***************************************************************************)
(* The decode of read().                                                   *)
(***************************************************************************)
\* the humidity with byte 3 not shifted down: its low nibble lands on byte 2's bits
decode_hum_noshift(b) == BitOr(BitOr(Shl(b[1], 12), Shl(b[2], 4)), b[3])

decode_hum(b) == BitOr(BitOr(Shl(b[1], 12), Shl(b[2], 4)), Shr(b[3], 4))

\* the temperature without the mask of byte 3: the humidity nibble leaks in
decode_temp_nomask(b) == BitOr(BitOr(Shl(b[3], 16), Shl(b[4], 8)), b[5])

decode_temp(b) == BitOr(BitOr(Shl(BitAnd(b[3], 15), 16), Shl(b[4], 8)), b[5])

\* the decode testing the neighbouring status bit
decode_wrong_flag(b) ==
    IF ~contains(b[0], FIFO_ENABLE)
    THEN Uncalibrated
    ELSE RetReading(decode_hum(b), decode_temp(b))

\* the decode rejecting a response whose BUSY bit is set
decode_rejects_busy(b) ==
    IF ~contains(b[0], CALIBRATION_ENABLE) \/ contains(b[0], BUSY)
    THEN Uncalibrated
    ELSE RetReading(decode_hum(b), decode_temp(b))

\* read() after the transaction succeeded
decode(b) ==
    IF ~contains(b[0], CALIBRATION_ENABLE)
    THEN Uncalibrated
    ELSE RetReading(decode_hum(b), decode_temp(b))

(***************************************************************************)
(* The state after construction of the program: no driver yet.             *)
(***************************************************************************)
Init ==
    /\ pc = "idle"
    /\ dev = FALSE
    /\ bus = <<>>
    /\ opStart = 0
    /\ nops = 0
    /\ ret = NoRet
    /\ buf = ZeroBuf
    /\ val = NoVal
    /\ fout = NoFOut

\* an operation is called: its first transport call goes on the bus (the locals of
\* the operation before it are gone: buf is fresh; the caller has let go of the
\* value it took from the reading before)
Call(op, at, ev) ==
    /\ pc = "idle"
    /\ nops < MaxOps
    /\ pc' = at
    /\ opStart' = Len(bus)
    /\ bus' = Append(bus, ev)
    /\ nops' = nops + 1
    /\ ret' = Pending(op)
    /\ buf' = ZeroBuf
    /\ val' = NoVal
    /\ fout' = NoFOut

\* an operation returns r
Return(r) ==
    /\ pc' = "idle"
    /\ ret' = r

(***************************************************************************)
(* AHT10::new                                                              *)
(***************************************************************************)
\* new(i2c, delay) is called and polls dev.write_cmd(Command::GetRaw, 0)
new_call ==
    /\ ~dev
    /\ Call("new", "new_w1", write_cmd(GetRaw, 0))
    /\ UNCHANGED dev

\* new() with the `?` of the first write dropped: a failed write is ignored
new_w1_done_ignored(res) ==
    /\ pc = "new_w1"
    /\ pc' = "new_d1"
    /\ bus' = bus \o Outcome(res)
    /\ UNCHANGED <<dev, opStart, nops, ret, buf, val, fout>>

\* dev.write_cmd(Command::GetRaw, 0).await? ends; on Ok delay_ms(300) starts
new_w1_done(res) ==
    /\ pc = "new_w1"
    /\ IF res.ok
       THEN pc' = "new_d1" /\ UNCHANGED ret
       ELSE Return(RetErr("new", res.err))
    /\ bus' = bus \o Outcome(res)
    /\ UNCHANGED <<dev, opStart, nops, buf, val, fout>>

\* new() without its first delay: Calibrate follows GetRaw at once
new_d1_done_nodelay ==
    /\ pc = "new_d1"
    /\ pc' = "new_w2"
    /\ bus' = Append(bus, write_cmd(Calibrate, 2048))
    /\ UNCHANGED <<dev, opStart, nops, ret, buf, val, fout>>

\* dev.delay.delay_ms(300).await ends; dev.write_cmd(Command::Calibrate, 0x0800) starts
new_d1_done ==
    /\ pc = "new_d1"
    /\ pc' = "new_w2"
    /\ bus' = bus \o <<DelayEv(NEW_DELAY_MS), write_cmd(Calibrate, 2048)>>
    /\ UNCHANGED <<dev, opStart, nops, ret, buf, val, fout>>

\* new() returning Ok(dev) as soon as the Calibrate write has succeeded
new_w2_done_early(res) ==
    /\ pc = "new_w2"
    /\ IF res.ok
       THEN Return(RetOk("new")) /\ dev' = TRUE
       ELSE Return(RetErr("new", res.err)) /\ UNCHANGED dev
    /\ bus' = bus \o Outcome(res)
    /\ UNCHANGED <<opStart, nops, buf, val, fout>>

\* dev.write_cmd(Command::Calibrate, 0x0800).await? ends; on Ok delay_ms(300) starts
new_w2_done(res) ==
    /\ pc = "new_w2"
    /\ IF res.ok
       THEN pc' = "new_d2" /\ UNCHANGED ret
       ELSE Return(RetErr("new", res.err))
    /\ bus' = bus \o Outcome(res)
    /\ UNCHANGED <<dev, opStart, nops, buf, val, fout>>

\* new() reading the status back after its second delay
new_d2_done_readback ==
    /\ pc = "new_d2"
    /\ bus' = bus \o <<DelayEv(NEW_DELAY_MS),
                       WriteReadEv(I2C_ADDRESS, <<AsU8(GetCT), 255, 0>>, BUF_LEN)>>
    /\ dev' = TRUE
    /\ Return(RetOk("new"))
    /\ UNCHANGED <<opStart, nops, buf, val, fout>>

\* new() returning Ok(dev) without its second delay
new_d2_done_nodelay ==
    /\ pc = "new_d2"
    /\ dev' = TRUE
    /\ Return(RetOk("new"))
    /\ UNCHANGED <<bus, opStart, nops, buf, val, fout>>

\* the second dev.delay.delay_ms(300).await ends; Ok(dev)
new_d2_done ==
    /\ pc = "new_d2"
    /\ bus' = Append(bus, DelayEv(NEW_DELAY_MS))
    /\ dev' = TRUE
    /\ Return(RetOk("new"))
    /\ UNCHANGED <<opStart, nops, buf, val, fout>>

(***************************************************************************)
(* AHT10::reset                                                            *)
(***************************************************************************)
\* reset(&mut self) is called and polls self.write_cmd(Command::Reset, 0)
reset_call ==
    /\ dev
    /\ Call("reset", "reset_w", write_cmd(Reset, 0))
    /\ UNCHANGED dev

\* reset() with the `?` of its write dropped: the delay runs after a failed write
reset_w_done_ignored(res) ==
    /\ pc = "reset_w"
    /\ pc' = "reset_d"
    /\ bus' = bus \o Outcome(res)
    /\ UNCHANGED <<dev, opStart, nops, ret, buf, val, fout>>

\* self.write_cmd(Command::Reset, 0).await? ends; on Ok delay_ms(20) starts
reset_w_done(res) ==
    /\ pc = "reset_w"
    /\ IF res.ok
       THEN pc' = "reset_d" /\ UNCHANGED ret
       ELSE Return(RetErr("reset", res.err))
    /\ bus' = bus \o Outcome(res)
    /\ UNCHANGED <<dev, opStart, nops, buf, val, fout>>

\* reset() re-running the calibration after its delay
reset_d_done_recalibrates ==
    /\ pc = "reset_d"
    /\ bus' = bus \o <<DelayEv(RESET_DELAY_MS), write_cmd(Calibrate, 2048)>>
    /\ Return(RetOk("reset"))
    /\ UNCHANGED <<dev, opStart, nops, buf, val, fout>>

\* self.delay.delay_ms(20).await ends; Ok(())
reset_d_done ==
    /\ pc = "reset_d"
    /\ bus' = Append(bus, DelayEv(RESET_DELAY_MS))
    /\ Return(RetOk("reset"))
    /\ UNCHANGED <<dev, opStart, nops, buf, val, fout>>

(***************************************************************************)
(* AHT10::read                                                             *)
(***************************************************************************)
\* read() as a write_cmd followed by a separate write_read
read_call_split ==
    /\ dev
    /\ pc = "idle"
    /\ nops < MaxOps
    /\ pc' = "read_wr"
    /\ opStart' = Len(bus)
    /\ bus' = bus \o <<write_cmd(GetCT, 65280),
                       WriteReadEv(I2C_ADDRESS, <<AsU8(GetCT), 255, 0>>, BUF_LEN)>>
    /\ nops' = nops + 1
    /\ ret' = Pending("read")
    /\ buf' = ZeroBuf
    /\ val' = NoVal
    /\ fout' = NoFOut
    /\ UNCHANGED dev

\* read(&mut self) is called: buf = &mut [0; 7], and it polls i2c.write_read(..)
read_call ==
    /\ dev
    /\ Call("read", "read_wr", WriteReadEv(I2C_ADDRESS, <<AsU8(GetCT), 255, 0>>, BUF_LEN))
    /\ UNCHANGED dev

\* read() with the `?` of write_read dropped: the buffer is decoded whatever res is
read_wr_done_ignored(res, b) ==
    /\ pc = "read_wr"
    /\ buf' = b
    /\ Return(decode(b))
    /\ bus' = bus \o Outcome(res)
    /\ UNCHANGED <<dev, opStart, nops, val, fout>>

\* read() with a settling delay between the transaction and the decode
read_wr_done_delayed(res, b) ==
    /\ pc = "read_wr"
    /\ buf' = b
    /\ IF res.ok
       THEN Return(decode(b)) /\ bus' = Append(bus, DelayEv(75))
       ELSE Return(From(res.err)) /\ bus' = bus \o Outcome(res)
    /\ UNCHANGED <<dev, opStart, nops, val, fout>>

\* read() of a driver that remembers a reset(): Uncalibrated until new() is run again
read_wr_done_remembers(res, b) ==
    /\ pc = "read_wr"
    /\ buf' = b
    /\ IF res.ok
       THEN IF \E i \in DOMAIN bus : bus[i].op = "write" /\ bus[i].bytes[1] = Reset
            THEN Return(Uncalibrated)
            ELSE Return(decode(b))
       ELSE Return(From(res.err))
    /\ bus' = bus \o Outcome(res)
    /\ UNCHANGED <<dev, opStart, nops, val, fout>>

\* self.i2c.write_read(..).await? ends with res, the buffer holding b; then the decode
read_wr_done(res, b) ==
    /\ pc = "read_wr"
    /\ buf' = b
    /\ IF res.ok
       THEN Return(decode(b))
       ELSE Return(From(res.err))
    /\ bus' = bus \o Outcome(res)
    /\ UNCHANGED <<dev, opStart, nops, val, fout>>

(***************************************************************************)
(* The caller drops the future of the operation in progress at the .await  *)
(* it is suspended at.                                                     *)
(***************************************************************************)
Cancel ==
    /\ pc # "idle"
    /\ Return(Dropped(ret.op))
    /\ UNCHANGED <<dev, bus, opStart, nops, buf, val, fout>>

Next ==
    \/ new_call
    \/ \E res \in TransportResults : new_w1_done(res)
    \/ new_d1_done
    \/ \E res \in TransportResults : new_w2_done(res)
    \/ new_d2_done
    \/ reset_call
    \/ \E res \in TransportResults : reset_w_done(res)
    \/ reset_d_done
    \/ read_call
    \/ \E b \in Responses : read_wr_done(TOk, b)
    \/ \E e \in BusErrors, b \in LeftInBuf : read_wr_done(TErr(e), b)
    \/ Cancel

Spec == Init /\ [][Next]_vars

(***************************************************************************)
(* The value types alone: a Humidity or a Temperature of any 20-bit raw    *)
(* count, and the conversions called on it.                                *)
(***************************************************************************)
\* the raw counts: 20 bits
RawCounts == 0..(TwoTo20 - 1)

ConvInit ==
    /\ pc = "idle"
    /\ dev = FALSE
    /\ bus = <<>>
    /\ opStart = 0
    /\ nops = 0
    /\ ret = NoRet
    /\ buf = ZeroBuf
    /\ \E r \in RawCounts : val = Humidity(r) \/ val = Temperature(r)
    /\ fout = NoFOut

IsHumidity(v) == DOMAIN v = {"h"}
IsTemperature(v) == DOMAIN v = {"t"}

\* val.rh() is called
call_rh ==
    /\ IsHumidity(val)
    /\ fout' = FOut("rh", rh(val))
    /\ UNCHANGED <<pc, dev, bus, opStart, nops, ret, buf, val>>

\* val.celsius() is called
call_celsius ==
    /\ IsTemperature(val)
    /\ fout' = FOut("celsius", celsius(val))
    /\ UNCHANGED <<pc, dev, bus, opStart, nops, ret, buf, val>>

ConvNext ==
    \/ call_rh
    \/ call_celsius

ConvSpec == ConvInit /\ [][ConvNext]_vars

(***************************************************************************)
(* The driver and what its caller does with a reading: it takes the        *)
(* Humidity or the Temperature of the pair the last read() returned and    *)
(* calls raw() and the conversions on it.                                  *)
(***************************************************************************)
\* the last operation was a read() that returned Ok((Humidity, Temperature))
HasReading == pc = "idle" /\ ret.op = "read" /\ ret.kind = "Ok"

\* let (h, _) = dev.read().await?
take_hum ==
    /\ HasReading
    /\ val = NoVal
    /\ val' = ret.val[1]
    /\ UNCHANGED <<pc, dev, bus, opStart, nops, ret, buf, fout>>

\* let (_, t) = dev.read().await?
take_temp ==
    /\ HasReading
    /\ val = NoVal
    /\ val' = ret.val[2]
    /\ UNCHANGED <<pc, dev, bus, opStart, nops, ret, buf, fout>>

\* val.raw() is called on a Humidity
call_raw_hum ==
    /\ IsHumidity(val)
    /\ fout' = FOut("raw", Humidity_raw(val))
    /\ UNCHANGED <<pc, dev, bus, opStart, nops, ret, buf, val>>

\* val.raw() is called on a Temperature
call_raw_temp ==
    /\ IsTemperature(val)
    /\ fout' = FOut("raw", Temperature_raw(val))
    /\ UNCHANGED <<pc, dev, bus, opStart, nops, ret, buf, val>>

UseNext ==
    \/ Next
    \/ take_hum
    \/ take_temp
    \/ call_rh
    \/ call_celsius
    \/ call_raw_hum
    \/ call_raw_temp

UseSpec == Init /\ [][UseNext]_vars

(***************************************************************************)
(* The decode alone: the first read() of a driver, its transaction in      *)
(* flight with the response already in the buffer, over a wider range of   *)
(* response bytes.                                                         *)
(***************************************************************************)
WideByteSamples == {0, 1, 15, 16, 127, 128, 240, 255}

WideStatusSamples == {8, 247, 255}

\* new() has returned Ok(dev), read() has been called on dev and the transport
\* has filled the buffer; the write_read has not completed yet
DecodeInit ==
    /\ pc = "read_wr"
    /\ dev = TRUE
    /\ bus = <<write_cmd(GetRaw, 0), DelayEv(NEW_DELAY_MS),
               write_cmd(Calibrate, 2048), DelayEv(NEW_DELAY_MS),
               WriteReadEv(I2C_ADDRESS, <<AsU8(GetCT), 255, 0>>, BUF_LEN)>>
    /\ opStart = 4
    /\ nops = 2
    /\ ret = Pending("read")
    /\ \E b0 \in WideStatusSamples, b1 \in WideByteSamples, b2 \in WideByteSamples,
          b3 \in WideByteSamples, b4 \in WideByteSamples, b5 \in WideByteSamples :
           buf = MkBuf(b0, b1, b2, b3, b4, b5, 0)
    /\ val = NoVal
    /\ fout = NoFOut

\* the write_read completes with Ok(()): the buffer is decoded
DecodeNext == read_wr_done(TOk, buf)

DecodeSpec == DecodeInit /\ [][DecodeNext]_vars

(***************************************************************************)
(* Properties.                                                             *)
(***************************************************************************)
IsWrite(ev, bytes) == ev.op = "write" /\ ev.bytes = bytes

IsWriteRead(ev, bytes, n) == ev.op = "write_read" /\ ev.bytes = bytes /\ ev.n = n

IsDelayAtLeast(ev, ms) == ev.op = "delay" /\ ev.n >= ms

\* bit k of byte x
Bit(x, k) == (x \div Pow2(k)) % 2

\* the last read() has returned after a transaction that succeeded
ReadCompleted ==
    /\ pc = "idle"
    /\ ret.op = "read"
    /\ ret.kind # "dropped"
    /\ \A i \in DOMAIN opLog : opLog[i].op # "error"

\* C1: a new() that returned Ok(dev) has done exactly: write [GetRaw, 0, 0], a delay
\* of at least 300 ms, write [Calibrate, 0x08, 0x00], a delay of at least 300 ms,
\* with no write_read; and in no state of a new() is the Calibrate write on the bus
\* unless the first delay has elapsed before it.
C1_NewHandshake ==
    /\ ret = RetOk("new") =>
          /\ Len(opLog) = 4
          /\ IsWrite(opLog[1], <<GetRaw, 0, 0>>)
          /\ IsDelayAtLeast(opLog[2], 300)
          /\ IsWrite(opLog[3], <<Calibrate, 8, 0>>)
          /\ IsDelayAtLeast(opLog[4], 300)
    /\ ret.op = "new" =>
          \A i \in DOMAIN opLog :
              /\ opLog[i].op # "write_read"
              /\ IsWrite(opLog[i], <<Calibrate, 8, 0>>) =>
                    i = 3 /\ IsDelayAtLeast(opLog[2], 300)

C1_Witness == ret = RetOk("new") /\ dev /\ pc = "idle" /\ Len(opLog) = 4

\* C2: when the transport reports an error for a write of new(), that error event
\* is the last thing new() does (no further write, no further delay), new() has
\* returned Err of exactly that error and there is no driver; a failed GetRaw write
\* leaves the operation at <<write GetRaw, error>>, without a Calibrate write.
C2_NewShortCircuit ==
    ret.op = "new" =>
        /\ \A i \in DOMAIN opLog :
              opLog[i].op = "error" =>
                  /\ i = Len(opLog)
                  /\ i \in {2, 4}
                  /\ pc = "idle"
                  /\ ret = [op |-> "new", kind |-> "Err", err |-> opLog[i].err, val |-> <<>>]
                  /\ ~dev
                  /\ \A j \in 1..(i - 1) : opLog[j].op = "write" => j \in {1, i - 1}
                  /\ i = 2 => IsWrite(opLog[1], <<GetRaw, 0, 0>>)
        /\ ret.kind = "Err" => Len(opLog) > 0 /\ opLog[Len(opLog)].op = "error"

C2_Witness ==
    /\ ret.op = "new" /\ ret.kind = "Err" /\ ret.err = "Nack"
    /\ Len(opLog) = 2 /\ opLog[2].op = "error"

\* C3: in every state of a read(), whatever it returned, the operation has issued
\* exactly one transport call, the write_read of [GetCT, 0xFF, 0x00] with a 7-byte
\* buffer; the only thing that may follow it in the history is the error the
\* transport reported for it.
C3_ReadOneTransaction ==
    ret.op = "read" =>
        /\ Len(opLog) \in {1, 2}
        /\ IsWriteRead(opLog[1], <<GetCT, 255, 0>>, 7)
        /\ Len(opLog) = 2 => opLog[2].op = "error"

C3_Witness == ret.op = "read" /\ ret.kind = "Uncalibrated" /\ pc = "idle" /\ Len(opLog) = 1

\* C4: a read() whose transaction gave a response with bit 3 of byte 0 cleared
\* returns Uncalibrated, with no values, whatever the other bits and bytes are.
C4_UncalibratedRejected ==
    (ReadCompleted /\ Bit(buf[0], 3) = 0) =>
        ret = [op |-> "read", kind |-> "Uncalibrated", err |-> "none", val |-> <<>>]

C4_Witness ==
    /\ ReadCompleted /\ buf[0] = 247 /\ buf[1] = 255 /\ buf[3] = 154 /\ buf[6] = 255
    /\ ret.kind = "Uncalibrated"

\* C5: a read() whose transaction gave a response b with bit 3 of byte 0 set
\* returns Ok with humidity (b1 << 12) | (b2 << 4) | (b3 >> 4) and temperature
\* ((b3 & 0x0F) << 16) | (b4 << 8) | b5 (the fields are disjoint, so the ors are
\* sums); bytes 0x19, 0x99, 0x9A, 0x19, 0x99 give 0x19999 and 0xA1999.
C5_DecodeFormula ==
    (ReadCompleted /\ Bit(buf[0], 3) = 1) =>
        /\ ret.kind = "Ok"
        /\ ret.val = << [h |-> buf[1] * 4096 + buf[2] * 16 + buf[3] \div 16],
                        [t |-> (buf[3] % 16) * 65536 + buf[4] * 256 + buf[5]] >>
        /\ (buf[1] = 25 /\ buf[2] = 153 /\ buf[3] = 154 /\ buf[4] = 25 /\ buf[5] = 153) =>
              ret.val = << [h |-> 104857], [t |-> 661913] >>

C5_Witness ==
    /\ ReadCompleted /\ ret.kind = "Ok"
    /\ buf[1] = 25 /\ buf[2] = 153 /\ buf[3] = 154 /\ buf[4] = 25 /\ buf[5] = 153

\* C6: when the transport reports an error for the write_read of read(), read()
\* has returned BusError of exactly that error, with no values, whatever is in the
\* buffer, and nothing follows the error in the operation (no retry).
C6_BusErrorPropagated ==
    ret.op = "read" =>
        \A i \in DOMAIN opLog :
            opLog[i].op = "error" =>
                /\ i = 2 /\ Len(opLog) = 2
                /\ pc = "idle"
                /\ ret = [op |-> "read", kind |-> "BusError", err |-> opLog[i].err,
                          val |-> <<>>]

C6_Witness ==
    /\ ret.op = "read" /\ ret.kind = "BusError" /\ ret.err = "ArbitrationLoss"
    /\ Len(opLog) = 2 /\ opLog[2] = ErrorEv("ArbitrationLoss")
    /\ buf[0] = 8 /\ buf[1] = 255

\* C7: a reset() issues one write, [Reset, 0, 0]; it returns Ok exactly when one
\* delay of at least 20 ms has followed that write; when the transport reports an
\* error for the write, reset() has returned Err of that error and no delay follows.
C7_ResetSequence ==
    ret.op = "reset" =>
        /\ Len(opLog) \in {1, 2}
        /\ IsWrite(opLog[1], <<Reset, 0, 0>>)
        /\ ret = RetOk("reset") <=> (Len(opLog) = 2 /\ IsDelayAtLeast(opLog[2], 20))
        /\ \A i \in DOMAIN opLog :
              opLog[i].op = "error" =>
                  /\ i = 2
                  /\ pc = "idle"
                  /\ ret = [op |-> "reset", kind |-> "Err", err |-> opLog[i].err,
                            val |-> <<>>]
        /\ ret.kind = "Err" => Len(opLog) = 2 /\ opLog[2].op = "error"

C7_Witness == ret = RetOk("reset") /\ pc = "idle" /\ Len(opLog) = 2

\* C8 as claimed: a read() that decoded its response (returned a reading or
\* Uncalibrated) has performed a timing delay after sending the GetCT command.
C8_ReadDelaysBeforeDecode ==
    (ret.op = "read" /\ ret.kind \in {"Ok", "Uncalibrated"}) =>
        \E i \in 2..Len(opLog) : opLog[i].op = "delay"

\* C8 amended: a read() performs no timing delay; the only wait between the GetCT
\* command and the decode is the completion of the write_read transaction itself:
\* while the transaction is in flight nothing is decoded or returned, and a read()
\* that decoded has done nothing but that one transaction.
C8_ReadAwaitsTransactionOnly ==
    /\ ret.op = "read" => \A i \in DOMAIN opLog : opLog[i].op # "delay"
    /\ pc = "read_wr" => ret = Pending("read") /\ buf = ZeroBuf
    /\ (ret.op = "read" /\ ret.kind \in {"Ok", "Uncalibrated"}) =>
          /\ pc = "idle"
          /\ Len(opLog) = 1
          /\ IsWriteRead(opLog[1], <<GetCT, 255, 0>>, 7)

C8_Witness == ret.op = "read" /\ ret.kind = "Ok" /\ pc = "idle" /\ Len(opLog) = 1

\* C9 as claimed: rh() of raw count r is exactly 100 * r / 2^20 (as counts of
\* 2^-20: 100 * r), and rh() is non-decreasing in r.
C9_RhExact ==
    fout.fn = "rh" =>
        /\ fout.q20 = 100 * val.h
        /\ val.h > 0 => rh(Humidity(val.h - 1)) <= fout.q20

\* C9 amended: rh() of raw count r in [0, 2^20 - 1] is 100 * r / 2^20 rounded to
\* the nearest f32, ties to even: it is exactly 100 * r / 2^20 when r is even or
\* r < 671089 (100 * r < 2^26), and it is off by exactly 4 / 2^20, on the f32 with
\* the even significand, when r is odd and r >= 671089; rh() is non-decreasing in r.
C9_RhNearestF32 ==
    fout.fn = "rh" =>
        LET r == val.h
            x == fout.q20
        IN  /\ r \in RawCounts
            /\ (r % 2 = 0 \/ r < 671089) => x = 100 * r
            /\ (r % 2 = 1 /\ r >= 671089) => Abs(x - 100 * r) = 4 /\ x % 16 = 0
            /\ r > 0 => rh(Humidity(r - 1)) <= x

C9_Witness == fout.fn = "rh" /\ val = [h |-> 1048575] /\ fout.q20 = 104857504

\* C10 as claimed: celsius() of raw count r is exactly 200 * r / 2^20 - 50 (as
\* counts of 2^-20: 200 * r - 50 * 2^20).
C10_CelsiusExact ==
    fout.fn = "celsius" => fout.q20 = 200 * val.t - 50 * TwoTo20

\* C10 amended: celsius() of raw count r in [0, 2^20 - 1] is 200 * r / 2^20 - 50
\* computed in f32: it is exactly 200 * r / 2^20 - 50 when r is even or r < 671089
\* (200 * r < 2^27), and it is off by exactly 8 / 2^20 when r is odd and
\* r >= 671089, the product 200 * r having been rounded to an f32 before the
\* division.
C10_CelsiusF32 ==
    fout.fn = "celsius" =>
        LET r == val.t
            x == fout.q20
            exact == 200 * r - 50 * TwoTo20
        IN  /\ r \in RawCounts
            /\ (r % 2 = 0 \/ r < 671089) => x = exact
            /\ (r % 2 = 1 /\ r >= 671089) => Abs(x - exact) = 8 /\ x % 32 = 0

C10_Witness == fout.fn = "celsius" /\ val = [t |-> 671089] /\ fout.q20 = 81788992

\* C11: raw() on a value taken from the pair a read() returned gives exactly the
\* count the value holds, which is exactly the integer decoded from the response
\* (humidity from bytes 1..3, temperature from bytes 3..5), also after rh() or
\* celsius() has been called on the value: the value the caller holds stays the one
\* read() returned.
C11_RawLossless ==
    /\ IsHumidity(val) =>
          /\ val = ret.val[1]
          /\ val.h = buf[1] * 4096 + buf[2] * 16 + buf[3] \div 16
          /\ fout.fn = "raw" => fout.q20 = val.h
    /\ IsTemperature(val) =>
          /\ val = ret.val[2]
          /\ val.t = (buf[3] % 16) * 65536 + buf[4] * 256 + buf[5]
          /\ fout.fn = "raw" => fout.q20 = val.t

C11_Witness ==
    /\ HasReading /\ IsHumidity(val) /\ fout = [fn |-> "raw", q20 |-> 1046937]
    /\ buf[1] = 255 /\ buf[2] = 153 /\ buf[3] = 154

\* a command on the bus: a write or a write_read
IsCommand(ev) == ev.op \in {"write", "write_read"}

\* an operation has returned without an error of the transport
ReturnedNormally == pc = "idle" /\ ret.kind \in {"Ok", "Uncalibrated"}

\* C12 as claimed: after each command the driver performs a settling delay before it
\* sends a further one: inside an operation a command is never followed directly by
\* another command, and when an operation has returned normally (the caller may
\* start the next command) the last thing in the history is a delay.
C12_DelayAfterEveryCommand ==
    /\ \A i \in 1..(Len(opLog) - 1) :
          IsCommand(opLog[i]) => ~IsCommand(opLog[i + 1])
    /\ ReturnedNormally => bus[Len(bus)].op = "delay"

\* C12 amended: the commands of new() and reset() (GetRaw, Calibrate, Reset) are
\* each followed by a settling delay (300, 300, 20 ms) before the operation sends a
\* further command or returns Ok; read() performs no delay after its GetCT
\* transaction: when a read() has returned a reading or Uncalibrated, the GetCT
\* write_read is the last thing in the history, and the next command follows it
\* with no delay between them.
C12_DelayAfterWritesOnly ==
    /\ \A i \in 1..(Len(opLog) - 1) :
          IsCommand(opLog[i]) => ~IsCommand(opLog[i + 1])
    /\ (ReturnedNormally /\ ret.op = "new") =>
          /\ IsDelayAtLeast(bus[Len(bus)], 300)
          /\ IsWrite(bus[Len(bus) - 1], <<Calibrate, 8, 0>>)
          /\ IsDelayAtLeast(bus[Len(bus) - 2], 300)
          /\ IsWrite(bus[Len(bus) - 3], <<GetRaw, 0, 0>>)
    /\ (ReturnedNormally /\ ret.op = "reset") =>
          /\ IsDelayAtLeast(bus[Len(bus)], 20)
          /\ IsWrite(bus[Len(bus) - 1], <<Reset, 0, 0>>)
    /\ (ReturnedNormally /\ ret.op = "read") =>
          IsWriteRead(bus[Len(bus)], <<GetCT, 255, 0>>, 7)

\* a reset() that followed a read() directly: GetCT, then Reset with no delay
\* between them, then the delay of reset()
C12_Witness ==
    /\ ret = RetOk("reset") /\ pc = "idle" /\ Len(bus) = 7
    /\ IsWriteRead(bus[5], <<GetCT, 255, 0>>, 7)
    /\ IsWrite(bus[6], <<Reset, 0, 0>>)
    /\ IsDelayAtLeast(bus[7], 20)

\* C13: no reset() and no read() ever writes Calibrate or GetRaw, whatever came
\* before it (a read() that returned Uncalibrated, a reset()): every command of
\* theirs carries the opcode Reset or GetCT.
C13_NoRecalibration ==
    ret.op \in {"reset", "read"} =>
        /\ dev
        /\ \A i \in DOMAIN opLog :
              IsCommand(opLog[i]) =>
                  /\ opLog[i].bytes[1] \notin {Calibrate, GetRaw}
                  /\ opLog[i].bytes[1] = (IF ret.op = "reset" THEN Reset ELSE GetCT)

\* a read() that returned Uncalibrated after a reset(): nothing but GetCT was sent
C13_Witness ==
    /\ ret.op = "read" /\ ret.kind = "Uncalibrated" /\ pc = "idle"
    /\ Len(bus) = 7
    /\ IsWrite(bus[5], <<Reset, 0, 0>>)
    /\ IsDelayAtLeast(bus[6], 20)
    /\ bus[7].op = "write_read"

\* the current (or last) operation directly follows a completed handshake of new()
FollowsHandshake ==
    /\ opStart >= 4
    /\ IsDelayAtLeast(bus[opStart], 300)
    /\ IsWrite(bus[opStart - 1], <<Calibrate, 8, 0>>)

\* C14: new() issues no write_read, and it has returned Ok(dev) exactly when its
\* two writes and two delays are done with no error of the transport, whatever the
\* sensor does with them; when the first read() after it gets a response with
\* CALIBRATION_ENABLE cleared (the sensor ignored the Calibrate write), the driver
\* exists and that read() returns Uncalibrated.
C14_NoReadBack ==
    /\ ret.op = "new" =>
          /\ \A i \in DOMAIN opLog : opLog[i].op # "write_read"
          /\ ret = RetOk("new") <=>
                (pc = "idle" /\ Len(opLog) = 4 /\ \A i \in DOMAIN opLog : opLog[i].op # "error")
          /\ ret = RetOk("new") => dev
    /\ (ReadCompleted /\ FollowsHandshake /\ Bit(buf[0], 3) = 0) =>
          /\ dev
          /\ ret = [op |-> "read", kind |-> "Uncalibrated", err |-> "none", val |-> <<>>]

C14_Witness ==
    /\ ReadCompleted /\ FollowsHandshake /\ dev
    /\ Len(bus) = 5 /\ nops = 2
    /\ buf[0] = 0
    /\ ret.kind = "Uncalibrated"

\* the responses of the samples that agree with b on bit 3 of byte 0 and on bytes
\* 1..5: they differ from b in the other status bits and in byte 6 only
SameButIgnored(b) ==
    {MkBuf(s, b[1], b[2], b[3], b[4], b[5], c) :
        s \in {x \in StatusSamples : Bit(x, 3) = Bit(b[0], 3)}, c \in Byte6Samples}

\* C15: what a read() returns for its response is what it returns for every response
\* that agrees with it on bit 3 of byte 0 and on bytes 1..5, whatever byte 6 and
\* the other status bits are; a response with BUSY and CALIBRATION_ENABLE set gives
\* a reading.
C15_IgnoredBits ==
    ReadCompleted =>
        /\ \A b \in SameButIgnored(buf) : decode(b) = ret
        /\ (Bit(buf[0], 7) = 1 /\ Bit(buf[0], 3) = 1) => ret.kind = "Ok"

C15_Witness ==
    /\ ReadCompleted /\ buf[0] = 136 /\ buf[6] = 255 /\ ret.kind = "Ok"
    /\ MkBuf(8, buf[1], buf[2], buf[3], buf[4], buf[5], 0) \in SameButIgnored(buf)

\* the result the transaction of the current read() alone determines: BusError of
\* the error the transport reported, else Uncalibrated or the two decoded counts
OwnResult ==
    IF Len(opLog) = 2 /\ opLog[2].op = "error"
    THEN [op |-> "read", kind |-> "BusError", err |-> opLog[2].err, val |-> <<>>]
    ELSE IF Bit(buf[0], 3) = 0
    THEN [op |-> "read", kind |-> "Uncalibrated", err |-> "none", val |-> <<>>]
    ELSE [op |-> "read", kind |-> "Ok", err |-> "none",
          val |-> << [h |-> buf[1] * 4096 + buf[2] * 16 + buf[3] \div 16],
                     [t |-> (buf[3] % 16) * 65536 + buf[4] * 256 + buf[5]] >>]

\* C16: what a read() returns is a function of its own transaction alone (the error
\* reported for it, or the 7 bytes it gave), whatever operations came before it.
C16_ReadStateless ==
    (pc = "idle" /\ ret.op = "read" /\ ret.kind # "dropped") => ret = OwnResult

\* a read() that returned a reading after a reset()
C16_Witness ==
    /\ pc = "idle" /\ ret.op = "read" /\ ret.kind = "Ok"
    /\ Len(bus) = 7
    /\ IsWrite(bus[5], <<Reset, 0, 0>>)
    /\ IsDelayAtLeast(bus[6], 20)

\* C17: every transport call in the history goes to address 0x38 and writes three
\* bytes, the first of them one of the four opcodes; a Calibrate command is
\* [0xE1, 0x08, 0x00] (payload 0x0800, high byte first), the commands GetRaw and
\* Reset carry the payload 0, GetCT the bytes 0xFF, 0x00.
C17_AddressAndFraming ==
    \A i \in DOMAIN bus :
        IsCommand(bus[i]) =>
            /\ bus[i].addr = 56
            /\ Len(bus[i].bytes) = 3
            /\ bus[i].bytes[1] \in {225, 168, 172, 186}
            /\ bus[i].bytes[1] = 225 => bus[i].bytes = <<225, 8, 0>>
            /\ bus[i].bytes[1] \in {168, 186} => (bus[i].bytes[2] = 0 /\ bus[i].bytes[3] = 0)
            /\ bus[i].bytes[1] = 172 => (bus[i].bytes[2] = 255 /\ bus[i].bytes[3] = 0)
            /\ \A k \in 1..3 : bus[i].bytes[k] \in 0..255

C17_Witness ==
    /\ Len(bus) = 7
    /\ bus[1] = [op |-> "write", addr |-> 56, bytes |-> <<168, 0, 0>>, n |-> 0, err |-> "none"]
    /\ bus[3] = [op |-> "write", addr |-> 56, bytes |-> <<225, 8, 0>>, n |-> 0, err |-> "none"]
    /\ bus[5] = [op |-> "write_read", addr |-> 56, bytes |-> <<172, 255, 0>>, n |-> 7,
                 err |-> "none"]
    /\ bus[6] = [op |-> "write", addr |-> 56, bytes |-> <<186, 0, 0>>, n |-> 0, err |-> "none"]

\* the history holds a complete handshake: the two writes, each followed by its delay
HandshakeAt(k) ==
    /\ IsWrite(bus[k], <<GetRaw, 0, 0>>)
    /\ IsDelayAtLeast(bus[k + 1], 300)
    /\ IsWrite(bus[k + 2], <<Calibrate, 8, 0>>)
    /\ IsDelayAtLeast(bus[k + 3], 300)

\* C18: a driver exists, and reset() or read() is called, only when the history
\* holds a complete handshake (both writes succeeded, both delays elapsed); while
\* new() is in progress, and after it failed or was dropped at any of its .await
\* points, there is no driver, although its GetRaw or Calibrate write may be on
\* the bus already.
C18_DriverOnlyAfterHandshake ==
    /\ dev => \E k \in 1..(Len(bus) - 3) : HandshakeAt(k)
    /\ ret.op \in {"reset", "read"} => dev
    /\ (ret.op = "new" /\ ret.kind \in {"pending", "Err", "dropped"}) => ~dev
    /\ pc \in {"new_w1", "new_d1", "new_w2", "new_d2"} => ~dev

\* new() dropped during its second delay: both writes are on the bus, no driver
C18_Witness ==
    /\ ret = Dropped("new") /\ pc = "idle" /\ ~dev
    /\ Len(opLog) = 3
    /\ IsWrite(opLog[3], <<Calibrate, 8, 0>>)

\* C19: the two counts of a reading lie in [0, 2^20 - 1], and each bit of them
\* comes from its own place of the response: humidity bits 19..12 are byte 1, bits
\* 11..4 byte 2, bits 3..0 the high nibble of byte 3; temperature bits 19..16 are
\* the low nibble of byte 3, bits 15..8 byte 4, bits 7..0 byte 5.
C19_RawIn20Bits ==
    (ReadCompleted /\ ret.kind = "Ok") =>
        LET h == ret.val[1].h
            t == ret.val[2].t
        IN  /\ h \in 0..(TwoTo20 - 1)
            /\ t \in 0..(TwoTo20 - 1)
            /\ h \div 4096 = buf[1]
            /\ (h \div 16) % 256 = buf[2]
            /\ h % 16 = buf[3] \div 16
            /\ t \div 65536 = buf[3] % 16
            /\ (t \div 256) % 256 = buf[4]
            /\ t % 256 = buf[5]

C19_Witness ==
    /\ ReadCompleted /\ ret.kind = "Ok"
    /\ \A i \in 1..5 : buf[i] = 255
    /\ ret.val = << [h |-> 1048575], [t |-> 1048575] >>

====
